---- MODULE Spec2Model ----
(***************************************************************************)
(* Order lifecycle and courier assignment engine of the delivery bot       *)
(* (src/src/orders/service.py) over the tables declared in                 *)
(* src/src/models/order.py and src/src/models/courier.py.                  *)
(*                                                                         *)
(* Every request runs in its own AsyncSession (src/src/core/database.py,   *)
(* get_db).  A handler is a sequence of awaits on the store: db.get reads  *)
(* the committed row, db.commit flushes the UPDATEs of the attributes the  *)
(* handler changed and commits them as one transaction.  No handler locks  *)
(* a row (there is no with_for_update), so between two awaits of one       *)
(* request any other request may run.  One action of the model is one      *)
(* await of one handler together with the synchronous code that follows.   *)
(*                                                                         *)
(* Beside the order engine the module has the one-time codes kept in Redis *)
(* (src/src/admin/service.py), the validation of registration codes        *)
(* (src/src/users/service.py) and the sending of notifications             *)
(* (src/src/notifications/service.py), each with state of its own.         *)
(***************************************************************************)
EXTENDS Integers, FiniteSets, Sequences, TLC

VARIABLES orders, couriers, clock, sess,
          otc, verifying,
          users, registration_codes, validating, failed_attempts,
          sending

\* tables orders and couriers, the value of now(), the requests to the engine
EngineVars == <<orders, couriers, clock, sess>>
\* the one-time codes in Redis and the calls of verify_one_time_code
AdminVars == <<otc, verifying>>
\* tables users and registration_codes, the calls of
\* validate_registration_code, and how many of them failed per telegram_id
UserVars == <<users, registration_codes, validating, failed_attempts>>
\* the calls of NotificationService._send_to_telegram
NotifyVars == <<sending>>

vars == <<orders, couriers, clock, sess, otc, verifying,
          users, registration_codes, validating, failed_attempts, sending>>

\* a step of one part of the program leaves the state of the others alone
Engine(A) == A /\ UNCHANGED <<AdminVars, UserVars, NotifyVars>>
Admin(A) == A /\ UNCHANGED <<EngineVars, UserVars, NotifyVars>>
Users(A) == A /\ UNCHANGED <<EngineVars, AdminVars, NotifyVars>>
Notify(A) == A /\ UNCHANGED <<EngineVars, AdminVars, UserVars>>

\* ---------------------------------------------------------------- bounds
NumOrders == 1
NumRaceOrders == 2
NumCouriers == 2
NumSessions == 2
MaxCapacity == 1
MaxClock == 2
MaxSweepClock == 3
MaxFailedAttempts == 4

\* ------------------------------------------------------------- constants
NULL == 0

\* zone.py line 20: the default base price of a zone
DefaultBasePrice == 3000
\* service.py line 32: the surcharge of a rush_hour order that names none
DefaultRushHourAddon == 1000
\* service.py line 36: the surcharge of a long_distance order that names none
DefaultZoneAddon == 500
\* service.py line 229: timedelta(hours=12); one unit of clock is 12 hours
AutoConfirmDelay == 1
\* users/service.py line 91: the failed attempts that block a user
BlockingAttempts == 3
\* core/config.py line 163: BusinessConfig.notification_retry_attempts
notification_retry_attempts == 3

\* primary keys of the rows of the two tables (no handler of the engine
\* inserts or deletes a row of either)
OrderIds == DOMAIN orders
CourierIds == 1..NumCouriers
Sessions == 1..NumSessions
\* ids a caller may pass: the last one references no row
OrderIdInputs == OrderIds \cup {Cardinality(OrderIds) + 1}
CourierIdInputs == 1..(NumCouriers + 1)
ZoneIds == {1, 2}
ZoneIdInputs == {1, 2, 3}

\* table zones: reference data, which no handler of the engine writes
zones == (1 :> [base_price |-> DefaultBasePrice]) @@ (2 :> [base_price |-> 2000])

OrderStatus ==
    {"created", "accepted", "picking_up", "in_progress",
     "delivered", "completed", "cancelled", "disputed"}

OrderType == {"normal", "special", "rush_hour", "long_distance", "important"}

\* columns of table orders that the engine reads or writes; confirmed_at and
\* autoconfirmed_at are no columns of the table (models/order.py declares
\* accepted_at, delivered_at, created_at, updated_at only)
OrderColumns ==
    {"status", "order_type", "courier_id", "accepted_at", "delivered_at",
     "courier_rating", "price", "zone_addon", "rush_hour_addon"}

\* what a reader of an Order gets for an attribute: the column's value, and
\* the schema default None for an attribute the loaded object does not have
\* (OrderResponse, from_attributes = True)
ReadAttr(row, attr) == IF attr \in DOMAIN row THEN row[attr] ELSE NULL

confirmed_at(o) == ReadAttr(orders[o], "confirmed_at")
autoconfirmed_at(o) == ReadAttr(orders[o], "autoconfirmed_at")

\* CheckConstraints of table couriers
CourierCheckConstraints(current_orders, max_orders) ==
    /\ current_orders >= 0
    /\ current_orders <= max_orders

\* CheckConstraint of table orders
OrderCheckConstraints(row) ==
    row.courier_rating = NULL \/ (row.courier_rating >= 1 /\ row.courier_rating <= 5)

\* ------------------------------------------------------------- sessions
\* the OrderCreate of a request that carries none
NoOrderData ==
    [zone_id |-> NULL, order_type |-> "none", zone_addon |-> 0, rush_hour_addon |-> 0]

\* a request: where its handler stands, its arguments, the courier_id it
\* loaded (old_courier), what it changed on the loaded order (status_changed,
\* stamp), the counter value it computed (pend), the OrderCreate it was given
\* (order_data) and the price it computed from it (total_price), the number
\* it returns (count), its outcome
IdleSession ==
    [pc |-> "idle", op |-> "none", order_id |-> NULL, courier_id |-> NULL,
     new_status |-> "none", rating |-> NULL, status_changed |-> FALSE,
     stamp |-> "none", old_courier |-> NULL, pend |-> NULL,
     order_data |-> NoOrderData, total_price |-> NULL, count |-> NULL,
     result |-> "none"]

\* outcomes that are no error: a response, and the None of automatic assignment
NoError == {"none", "ok", "no_courier"}

Called(op, o) == [IdleSession EXCEPT !.op = op, !.order_id = o]

\* the handler returned or raised: the loaded objects are gone
Finished(s, res) ==
    [IdleSession EXCEPT !.pc = "done", !.op = s.op, !.order_id = s.order_id,
                        !.courier_id = s.courier_id, !.rating = s.rating,
                        !.order_data = s.order_data, !.result = res]

\* ------------------------------------------------------ unit of work
\* The UPDATE of a flush sets the mapped columns whose value the handler
\* changed; an attribute that is no column of the table stays on the Python
\* object only.
Flush(row, dirty) ==
    [col \in DOMAIN row |-> IF col \in DOMAIN dirty THEN dirty[col] ELSE row[col]]

\* attributes set to the value they were loaded with are no change
NetChange(attr, old, new) == IF new = old THEN <<>> ELSE (attr :> new)

\* ============================================================ create_order
\* OrderCreate (schemas/order.py) declares no field shop_id, so building the
\* Order from order_data raises AttributeError before db.add is reached.
OrderCreateFields ==
    {"description", "recipient_name", "recipient_phone", "recipient_address",
     "price", "pickup_address", "delivery_time", "is_fragile", "is_bulky",
     "special_reason", "recipient_phone_code", "zone_id", "order_type",
     "zone_addon", "rush_hour_addon"}

\* a Python number: zone.base_price is a Decimal (DECIMAL column), the addons
\* of OrderCreate are floats, the literal 0 of line 39 is an int
Num(type, value) == [type |-> type, value |-> value]

TypeError == Num("TypeError", 0)

\* a + b in Python: Decimal and float have no common addition
PyAdd(a, b) ==
    IF "TypeError" \in {a.type, b.type} \/ {a.type, b.type} = {"Decimal", "float"}
    THEN TypeError
    ELSE Num(IF "float" \in {a.type, b.type} THEN "float" ELSE a.type,
             a.value + b.value)

\* lines 26-36: the defaults written into order_data
rush_hour_addon(order_data) ==
    IF order_data.order_type = "rush_hour" /\ order_data.rush_hour_addon = 0
    THEN DefaultRushHourAddon ELSE order_data.rush_hour_addon

zone_addon(order_data) ==
    IF order_data.order_type = "long_distance" /\ order_data.zone_addon = 0
    THEN DefaultZoneAddon ELSE order_data.zone_addon

\* the base of an important order left at the zone's price, as a float
base_price_NeverZero(order_data) ==
    Num("float", zones[order_data.zone_id].base_price)

\* lines 23 and 37-39
base_price(order_data) ==
    IF order_data.order_type = "important" THEN Num("int", 0)
    ELSE Num("Decimal", zones[order_data.zone_id].base_price)

\* line 41
total_price(order_data) ==
    PyAdd(PyAdd(base_price(order_data), Num("float", zone_addon(order_data))),
          Num("float", rush_hour_addon(order_data)))

\* lines 44-60: the row of the new order
OrderOf(order_data, price) ==
    [status |-> "created", order_type |-> order_data.order_type,
     courier_id |-> NULL, accepted_at |-> NULL, delivered_at |-> NULL,
     courier_rating |-> NULL, price |-> price,
     zone_addon |-> zone_addon(order_data),
     rush_hour_addon |-> rush_hour_addon(order_data)]

\* lines 18-65: db.get(Zone) is the only await before the Order is built
create_order(p, order_data) ==
    /\ sess[p].pc = "idle"
    /\ LET s == [Called("create_order", NULL) EXCEPT !.order_data = order_data]
           price == total_price(order_data) IN
        IF order_data.zone_id \notin ZoneIds
        THEN /\ sess' = [sess EXCEPT ![p] = Finished(s, "zone_not_found")]
             /\ UNCHANGED orders
        ELSE IF price = TypeError
        THEN /\ sess' = [sess EXCEPT ![p] = Finished(s, "type_error")]
             /\ UNCHANGED orders
        ELSE IF "shop_id" \notin OrderCreateFields
        THEN /\ sess' = [sess EXCEPT ![p] =
                    [Finished(s, "attribute_error") EXCEPT !.total_price = price.value]]
             /\ UNCHANGED orders
        ELSE /\ orders' = Append(orders, OrderOf(order_data, price.value))
             /\ sess' = [sess EXCEPT ![p] =
                    [Finished(s, "ok") EXCEPT !.total_price = price.value,
                                              !.order_id = Len(orders) + 1]]
    /\ UNCHANGED <<couriers, clock>>

\* ================================================= assign_courier_manually
\* the capacity check off by one: a courier at the limit passes
NoFreeSlots_OffByOne(courier) == courier.current_orders > courier.max_orders

\* line 118: the courier has no free slot
NoFreeSlots(courier) == courier.current_orders >= courier.max_orders

\* lines 107-112: db.get(Order) and the checks on the order
assign_courier_manually_get_order(p, o, c) ==
    /\ sess[p].pc = "idle"
    /\ LET s == [Called("assign_courier_manually", o) EXCEPT !.courier_id = c] IN
        sess' = [sess EXCEPT ![p] =
            IF o \notin OrderIds THEN Finished(s, "order_not_found")
            ELSE IF orders[o].status # "created" THEN Finished(s, "not_created")
            ELSE [s EXCEPT !.pc = "got_order",
                           !.old_courier = orders[o].courier_id]]
    /\ UNCHANGED <<orders, couriers, clock>>

\* the two checks on the courier in the other order: capacity before activity
assign_courier_manually_get_courier_CapacityFirst(p) ==
    /\ sess[p].pc = "got_order"
    /\ sess[p].op = "assign_courier_manually"
    /\ LET s == sess[p]
           c == s.courier_id IN
        sess' = [sess EXCEPT ![p] =
            IF c \in CourierIds /\ NoFreeSlots(couriers[c])
            THEN Finished(s, "no_free_slots")
            ELSE IF c \notin CourierIds \/ ~couriers[c].is_active
            THEN Finished(s, "courier_unavailable")
            ELSE [s EXCEPT !.pc = "got_courier",
                           !.pend = couriers[c].current_orders + 1]]
    /\ UNCHANGED <<orders, couriers, clock>>

\* lines 114-125: db.get(Courier), the checks on the courier, and the changes
\* made to the two loaded objects
assign_courier_manually_get_courier(p) ==
    /\ sess[p].pc = "got_order"
    /\ sess[p].op = "assign_courier_manually"
    /\ LET s == sess[p]
           c == s.courier_id IN
        sess' = [sess EXCEPT ![p] =
            IF c \notin CourierIds \/ ~couriers[c].is_active
            THEN Finished(s, "courier_unavailable")
            ELSE IF NoFreeSlots(couriers[c]) THEN Finished(s, "no_free_slots")
            ELSE [s EXCEPT !.pc = "got_courier",
                           !.pend = couriers[c].current_orders + 1]]
    /\ UNCHANGED <<orders, couriers, clock>>

\* an assignment that prices the order anew
AssignmentDirty_Reprice(s) ==
    ("courier_id" :> s.courier_id) @@ ("status" :> "accepted")
        @@ ("accepted_at" :> clock) @@ ("price" :> 0)

\* lines 121-123 / 156-158: the attributes an assignment sets on the order
AssignmentDirty(s) ==
    NetChange("courier_id", s.old_courier, s.courier_id)
        @@ ("status" :> "accepted") @@ ("accepted_at" :> clock)

\* lines 130-132 / 162-164: db.commit writes the order and the courier in one
\* transaction; the counter is written as the value computed from the read
assignment_commit(p) ==
    /\ sess[p].pc = "got_courier"
    /\ LET s == sess[p]
           o == s.order_id
           c == s.courier_id IN
        IF CourierCheckConstraints(s.pend, couriers[c].max_orders)
        THEN /\ orders' = [orders EXCEPT ![o] = Flush(@, AssignmentDirty(s))]
             /\ couriers' = [couriers EXCEPT ![c].current_orders = s.pend]
             /\ sess' = [sess EXCEPT ![p] = Finished(s, "ok")]
        ELSE /\ sess' = [sess EXCEPT ![p] = Finished(s, "integrity_error")]
             /\ UNCHANGED <<orders, couriers>>
    /\ UNCHANGED clock

\* ============================================ assign_courier_automatically
\* line 95: `Courier.is_active is True` compares the column object with True
\* by identity in Python, before any SQL is built: it is the constant False
is_active_is_True(courier) == FALSE

\* lines 93-98: and_(False, ...) is the SQL constant false
get_available_couriers ==
    {c \in CourierIds :
        /\ is_active_is_True(couriers[c])
        /\ couriers[c].current_orders < couriers[c].max_orders}

\* line 154: min() by current_orders; the query has no ORDER BY, so among the
\* least loaded any row may come first
MinByCurrentOrders(available) ==
    {c \in available :
        \A d \in available : couriers[c].current_orders <= couriers[d].current_orders}

\* the status check before the type check
assign_courier_automatically_get_order_StatusFirst(p, o) ==
    /\ sess[p].pc = "idle"
    /\ LET s == Called("assign_courier_automatically", o) IN
        sess' = [sess EXCEPT ![p] =
            IF o \notin OrderIds THEN Finished(s, "order_not_found")
            ELSE IF orders[o].status # "created" THEN Finished(s, "already_assigned")
            ELSE IF orders[o].order_type # "special" THEN Finished(s, "only_special")
            ELSE [s EXCEPT !.pc = "got_order",
                           !.old_courier = orders[o].courier_id]]
    /\ UNCHANGED <<orders, couriers, clock>>

\* lines 139-147
assign_courier_automatically_get_order(p, o) ==
    /\ sess[p].pc = "idle"
    /\ LET s == Called("assign_courier_automatically", o) IN
        sess' = [sess EXCEPT ![p] =
            IF o \notin OrderIds THEN Finished(s, "order_not_found")
            ELSE IF orders[o].order_type # "special" THEN Finished(s, "only_special")
            ELSE IF orders[o].status # "created" THEN Finished(s, "already_assigned")
            ELSE [s EXCEPT !.pc = "got_order",
                           !.old_courier = orders[o].courier_id]]
    /\ UNCHANGED <<orders, couriers, clock>>

\* lines 149-160
assign_courier_automatically_select(p) ==
    /\ sess[p].pc = "got_order"
    /\ sess[p].op = "assign_courier_automatically"
    /\ LET s == sess[p]
           available_couriers == get_available_couriers IN
        IF available_couriers = {}
        THEN sess' = [sess EXCEPT ![p] = Finished(s, "no_courier")]
        ELSE \E c \in MinByCurrentOrders(available_couriers) :
                sess' = [sess EXCEPT ![p] =
                    [s EXCEPT !.pc = "got_courier", !.courier_id = c,
                              !.pend = couriers[c].current_orders + 1]]
    /\ UNCHANGED <<orders, couriers, clock>>

\* ===================================================== serialising a reply
\* OrderResponse.from_orm(order) after db.refresh: refresh reloads the mapped
\* columns; an attribute that is no column keeps the func.now() expression
\* the handler stored in it, which is no datetime, so validation of the
\* response raises after the commit.
ResponseOf(dirty) ==
    IF DOMAIN dirty \subseteq OrderColumns THEN "ok" ELSE "validation_error"

\* ===================================================== update_order_status
\* confirmed_at stamped one transition early, on delivery
StatusStamp_OnDelivery(old_status, new_status) ==
    IF new_status = "picking_up" /\ old_status = "accepted" THEN "accepted_at"
    ELSE IF new_status = "delivered" /\ old_status = "in_progress" THEN "confirmed_at"
    ELSE "none"

\* delivered_at stamped on every change to delivered, whatever the old status
StatusStamp_AnyDelivered(old_status, new_status) ==
    IF new_status = "picking_up" /\ old_status = "accepted" THEN "accepted_at"
    ELSE IF new_status = "delivered" THEN "delivered_at"
    ELSE IF new_status = "completed" /\ old_status = "delivered" THEN "confirmed_at"
    ELSE "none"

\* lines 180-195: the timestamp attribute assigned for the pair old -> new
StatusStamp(old_status, new_status) ==
    IF new_status = "picking_up" /\ old_status = "accepted" THEN "accepted_at"
    ELSE IF new_status = "in_progress" /\ old_status = "picking_up" THEN "none"
    ELSE IF new_status = "delivered" /\ old_status = "in_progress" THEN "delivered_at"
    ELSE IF new_status = "completed" /\ old_status = "delivered" THEN "confirmed_at"
    ELSE "none"

\* the attributes the loaded order carries as changed after lines 177-195:
\* status when the new value differs from the loaded one, and the stamp, whose
\* value is the now() of the UPDATE
StatusDirty(s) ==
    (IF s.status_changed THEN "status" :> s.new_status ELSE <<>>)
        @@ (IF s.stamp = "none" THEN <<>> ELSE s.stamp :> clock)

\* lines 173-195
update_order_status_get_order(p, o, new_status) ==
    /\ sess[p].pc = "idle"
    /\ LET s == [Called("update_order_status", o) EXCEPT !.new_status = new_status] IN
        sess' = [sess EXCEPT ![p] =
            IF o \notin OrderIds THEN Finished(s, "order_not_found")
            ELSE [s EXCEPT !.pc = "pending",
                           !.status_changed = (new_status # orders[o].status),
                           !.stamp = StatusStamp(orders[o].status, new_status)]]
    /\ UNCHANGED <<orders, couriers, clock>>

\* lines 200-202
update_order_status_commit(p) ==
    /\ sess[p].pc = "pending"
    /\ sess[p].op = "update_order_status"
    /\ LET s == sess[p]
           o == s.order_id
           dirty == StatusDirty(s) IN
        /\ orders' = [orders EXCEPT ![o] = Flush(@, dirty)]
        /\ sess' = [sess EXCEPT ![p] = Finished(s, ResponseOf(dirty))]
    /\ UNCHANGED <<couriers, clock>>

\* =========================================================== confirm_order
\* lines 209-217
confirm_order_get_order(p, o) ==
    /\ sess[p].pc = "idle"
    /\ LET s == Called("confirm_order", o) IN
        sess' = [sess EXCEPT ![p] =
            IF o \notin OrderIds THEN Finished(s, "order_not_found")
            ELSE IF orders[o].status # "delivered" THEN Finished(s, "only_delivered")
            ELSE [s EXCEPT !.pc = "pending", !.new_status = "completed",
                           !.status_changed = TRUE, !.stamp = "confirmed_at"]]
    /\ UNCHANGED <<orders, couriers, clock>>

\* lines 219-221
confirm_order_commit(p) ==
    /\ sess[p].pc = "pending"
    /\ sess[p].op = "confirm_order"
    /\ LET s == sess[p]
           o == s.order_id
           dirty == StatusDirty(s) IN
        /\ orders' = [orders EXCEPT ![o] = Flush(@, dirty)]
        /\ sess' = [sess EXCEPT ![p] = Finished(s, ResponseOf(dirty))]
    /\ UNCHANGED <<couriers, clock>>

\* ===================================================== auto_confirm_orders
\* lines 229-241: the rows the query asks for; a NULL delivered_at compares
\* to nothing
orders_to_confirm ==
    {o \in OrderIds :
        /\ orders[o].status = "delivered"
        /\ orders[o].delivered_at # NULL
        /\ orders[o].delivered_at < clock - AutoConfirmDelay
        /\ confirmed_at(o) = NULL
        /\ autoconfirmed_at(o) = NULL}

\* lines 229-250.  The where clause names Order.confirmed_at and
\* Order.autoconfirmed_at, attributes the class Order does not have, so
\* building the query raises AttributeError before db.execute is awaited:
\* the whole call is one step.
auto_confirm_orders(p) ==
    /\ sess[p].pc = "idle"
    /\ LET s == Called("auto_confirm_orders", NULL)
           dirty == ("status" :> "completed") @@ ("autoconfirmed_at" :> clock) IN
        IF ~({"confirmed_at", "autoconfirmed_at"} \subseteq OrderColumns)
        THEN /\ sess' = [sess EXCEPT ![p] = Finished(s, "attribute_error")]
             /\ UNCHANGED orders
        ELSE /\ orders' = [o \in OrderIds |->
                    IF o \in orders_to_confirm THEN Flush(orders[o], dirty)
                    ELSE orders[o]]
             /\ sess' = [sess EXCEPT ![p] =
                    [Finished(s, "ok") EXCEPT !.count = Cardinality(orders_to_confirm)]]
    /\ UNCHANGED <<couriers, clock>>

\* ============================================================ rate_courier
\* the rating checked after the order has been read
rate_courier_get_order_OrderFirst(p, o, rating) ==
    /\ sess[p].pc = "idle"
    /\ LET s == [Called("rate_courier", o) EXCEPT !.rating = rating] IN
        sess' = [sess EXCEPT ![p] =
            IF o \notin OrderIds THEN Finished(s, "order_not_found")
            ELSE IF ~(1 <= rating /\ rating <= 5) THEN Finished(s, "bad_rating")
            ELSE IF orders[o].status \notin {"completed", "disputed"}
                THEN Finished(s, "only_completed")
            ELSE IF orders[o].courier_rating # NULL THEN Finished(s, "already_rated")
            ELSE [s EXCEPT !.pc = "pending"]]
    /\ UNCHANGED <<orders, couriers, clock>>

\* lines 259-274
rate_courier_get_order(p, o, rating) ==
    /\ sess[p].pc = "idle"
    /\ LET s == [Called("rate_courier", o) EXCEPT !.rating = rating] IN
        sess' = [sess EXCEPT ![p] =
            IF ~(1 <= rating /\ rating <= 5) THEN Finished(s, "bad_rating")
            ELSE IF o \notin OrderIds THEN Finished(s, "order_not_found")
            ELSE IF orders[o].status \notin {"completed", "disputed"}
                THEN Finished(s, "only_completed")
            ELSE IF orders[o].courier_rating # NULL THEN Finished(s, "already_rated")
            ELSE [s EXCEPT !.pc = "pending"]]
    /\ UNCHANGED <<orders, couriers, clock>>

\* lines 276-278
rate_courier_commit(p) ==
    /\ sess[p].pc = "pending"
    /\ sess[p].op = "rate_courier"
    /\ LET s == sess[p]
           o == s.order_id
           dirty == "courier_rating" :> s.rating
           row == Flush(orders[o], dirty) IN
        IF OrderCheckConstraints(row)
        THEN /\ orders' = [orders EXCEPT ![o] = row]
             /\ sess' = [sess EXCEPT ![p] = Finished(s, ResponseOf(dirty))]
        ELSE /\ sess' = [sess EXCEPT ![p] = Finished(s, "integrity_error")]
             /\ UNCHANGED orders
    /\ UNCHANGED <<couriers, clock>>

\* ==================================================== verify_one_time_code
\* the keys otc:<code> of Redis: no such key (never generated, or expired),
\* or the JSON document of the code with its flag is_used
OtcCodes == {"111111", "222222"}
OtcValues == {"absent", "unused", "used"}

IdleVerify == [pc |-> "idle", code |-> "none", result |-> "none"]

\* admin/service.py lines 85-99 and 108-113: client.get and the check of
\* is_used; a Redis error is caught and answered with None
verify_one_time_code_get(p, code, redis_ok) ==
    /\ verifying[p].pc = "idle"
    /\ verifying' = [verifying EXCEPT ![p] =
            IF ~redis_ok THEN [pc |-> "done", code |-> code, result |-> "None"]
            ELSE IF otc[code] = "absent" THEN [pc |-> "done", code |-> code, result |-> "None"]
            ELSE IF otc[code] = "used" THEN [pc |-> "done", code |-> code, result |-> "None"]
            ELSE [pc |-> "checked", code |-> code, result |-> "none"]]
    /\ UNCHANGED otc

\* lines 101-106 and 111-113: client.setex writes the document with is_used
\* true, whatever the key holds by now, and the code is returned as valid
verify_one_time_code_setex(p, redis_ok) ==
    /\ verifying[p].pc = "checked"
    /\ LET code == verifying[p].code IN
        IF redis_ok
        THEN /\ otc' = [otc EXCEPT ![code] = "used"]
             /\ verifying' = [verifying EXCEPT ![p] =
                    [pc |-> "done", code |-> code, result |-> "valid"]]
        ELSE /\ verifying' = [verifying EXCEPT ![p] =
                    [pc |-> "done", code |-> code, result |-> "None"]]
             /\ UNCHANGED otc

\* admin/views.py lines 78-85: the answer reaches the caller
verify_one_time_code_return(p) ==
    /\ verifying[p].pc = "done"
    /\ verifying' = [verifying EXCEPT ![p] = IdleVerify]
    /\ UNCHANGED otc

\* lines 65 and 103: the key was set with a time to live and expires
otc_expire(code) ==
    /\ otc[code] # "absent"
    /\ otc' = [otc EXCEPT ![code] = "absent"]
    /\ UNCHANGED verifying

\* ============================================== validate_registration_code
TelegramIds == {1}
RegistrationCodeIds == {"SHOP01"}
RegistrationCodeInputs == {"SHOP01", "WRONG1"}

\* a row of table users (models/user.py lines 24-27), and the absence of one
NoUser == [exists |-> FALSE, registration_attempts |-> 0, is_blocked |-> FALSE]
NewUser(registration_attempts) ==
    [exists |-> TRUE, registration_attempts |-> registration_attempts,
     is_blocked |-> FALSE]

IdleValidate ==
    [pc |-> "idle", telegram_id |-> NULL, code |-> "none", user |-> NoUser,
     result |-> "none"]

ValidateDone(v, res) ==
    [IdleValidate EXCEPT !.pc = "done", !.telegram_id = v.telegram_id,
                         !.code = v.code, !.result = res]

\* users/service.py line 82: `RegistrationCode.is_used is False` compares the
\* column object with False by identity in Python: it is the constant False,
\* and the query selects no row
is_used_is_False(row) == FALSE

\* lines 78-85: the codes the query finds
find_registration_code(code) ==
    {c \in RegistrationCodeIds :
        c = code /\ is_used_is_False(registration_codes[c])}

\* lines 73-75: the user is looked up and refused if blocked
validate_registration_code_get_user(p, telegram_id, code) ==
    /\ validating[p].pc = "idle"
    /\ failed_attempts[telegram_id] < MaxFailedAttempts
    /\ LET v == [IdleValidate EXCEPT !.telegram_id = telegram_id, !.code = code]
           user == users[telegram_id] IN
        validating' = [validating EXCEPT ![p] =
            IF user.exists /\ user.is_blocked THEN ValidateDone(v, "blocked")
            ELSE [v EXCEPT !.pc = "got_user", !.user = user]]
    /\ UNCHANGED <<users, registration_codes, failed_attempts>>

\* lines 90-92: one more attempt on the loaded user, blocked from the third
CountAttempt(user) ==
    [user EXCEPT !.registration_attempts = @ + 1,
                 !.is_blocked = (@ \/ user.registration_attempts + 1 >= BlockingAttempts)]

\* lines 78-106: the code is looked up, and the loaded objects are changed
validate_registration_code_find_code(p) ==
    /\ validating[p].pc = "got_user"
    /\ LET v == validating[p]
           reg_code == find_registration_code(v.code) IN
        validating' = [validating EXCEPT ![p] =
            IF reg_code = {}
            THEN IF v.user.exists
                 THEN [v EXCEPT !.pc = "update", !.user = CountAttempt(v.user)]
                 ELSE [v EXCEPT !.pc = "insert", !.user = NewUser(1)]
            ELSE IF v.user.exists
                 THEN [v EXCEPT !.pc = "use_code",
                                !.user = [v.user EXCEPT !.registration_attempts = 0]]
                 ELSE ValidateDone(v, "ok")]
    /\ UNCHANGED <<users, registration_codes, failed_attempts>>

\* lines 93, 98 and 107: db.commit.  The UPDATE sets the attributes the
\* request changed; the INSERT of the temporary user fails on the unique
\* telegram_id when another request has inserted it meanwhile.
validate_registration_code_commit(p) ==
    /\ validating[p].pc \in {"update", "insert", "use_code"}
    /\ LET v == validating[p]
           t == v.telegram_id IN
        IF v.pc = "update"
        THEN /\ users' = [users EXCEPT ![t] =
                    [@ EXCEPT !.registration_attempts = v.user.registration_attempts,
                              !.is_blocked = (@ \/ v.user.is_blocked)]]
             /\ validating' = [validating EXCEPT ![p] = ValidateDone(v, "invalid_code")]
             /\ failed_attempts' = [failed_attempts EXCEPT ![t] = @ + 1]
             /\ UNCHANGED registration_codes
        ELSE IF v.pc = "insert"
        THEN IF users[t].exists
             THEN /\ validating' = [validating EXCEPT ![p] =
                        ValidateDone(v, "integrity_error")]
                  /\ UNCHANGED <<users, registration_codes, failed_attempts>>
             ELSE /\ users' = [users EXCEPT ![t] = v.user]
                  /\ validating' = [validating EXCEPT ![p] =
                        ValidateDone(v, "invalid_code")]
                  /\ failed_attempts' = [failed_attempts EXCEPT ![t] = @ + 1]
                  /\ UNCHANGED registration_codes
        ELSE /\ users' = [users EXCEPT ![t].registration_attempts = 0]
             /\ registration_codes' = [registration_codes EXCEPT ![v.code].is_used = TRUE]
             /\ validating' = [validating EXCEPT ![p] = ValidateDone(v, "ok")]
             /\ UNCHANGED failed_attempts

\* the ValueError or the code reaches the caller
validate_registration_code_return(p) ==
    /\ validating[p].pc = "done"
    /\ validating' = [validating EXCEPT ![p] = IdleValidate]
    /\ UNCHANGED <<users, registration_codes, failed_attempts>>

\* ================================== NotificationService._send_to_telegram
\* what bot.send_message does to one attempt
SendOutcomes == {"ok", "TelegramRetryAfter", "TelegramBadRequest", "Exception"}

IdleSend ==
    [pc |-> "idle", attempt |-> 0, sent |-> 0, last |-> "none", result |-> "none"]

\* notifications/service.py line 116: the loop is entered
send_to_telegram_call(p) ==
    /\ sending[p].pc = "idle"
    /\ sending' = [sending EXCEPT ![p] = [IdleSend EXCEPT !.pc = "loop"]]

\* an attempt after which a TelegramBadRequest is retried like any error
send_to_telegram_attempt_RetryBadRequest(p, outcome) ==
    /\ sending[p].pc = "loop"
    /\ sending[p].attempt < notification_retry_attempts
    /\ LET m == [sending[p] EXCEPT !.sent = @ + 1, !.last = outcome] IN
        sending' = [sending EXCEPT ![p] =
            IF outcome = "ok" THEN [m EXCEPT !.pc = "returned", !.result = "True"]
            ELSE IF outcome = "TelegramRetryAfter" THEN [m EXCEPT !.pc = "sleep"]
            ELSE IF m.attempt < notification_retry_attempts - 1
                 THEN [m EXCEPT !.pc = "sleep"]
                 ELSE [m EXCEPT !.attempt = @ + 1]]

\* lines 117-143: one pass of the loop body up to its next await
send_to_telegram_attempt(p, outcome) ==
    /\ sending[p].pc = "loop"
    /\ sending[p].attempt < notification_retry_attempts
    /\ LET m == [sending[p] EXCEPT !.sent = @ + 1, !.last = outcome] IN
        sending' = [sending EXCEPT ![p] =
            IF outcome = "ok" THEN [m EXCEPT !.pc = "returned", !.result = "True"]
            ELSE IF outcome = "TelegramRetryAfter" THEN [m EXCEPT !.pc = "sleep"]
            ELSE IF outcome = "TelegramBadRequest"
                 THEN [m EXCEPT !.pc = "returned", !.result = "False"]
            ELSE IF m.attempt < notification_retry_attempts - 1
                 THEN [m EXCEPT !.pc = "sleep"]
                 ELSE [m EXCEPT !.attempt = @ + 1]]

\* lines 130 and 139: asyncio.sleep returns and the next pass begins
send_to_telegram_wake(p) ==
    /\ sending[p].pc = "sleep"
    /\ sending' = [sending EXCEPT ![p] = [@ EXCEPT !.pc = "loop", !.attempt = @ + 1]]

\* lines 116 and 145: range(max_retries) is used up
send_to_telegram_exhausted(p) ==
    /\ sending[p].pc = "loop"
    /\ sending[p].attempt >= notification_retry_attempts
    /\ sending' = [sending EXCEPT ![p] = [@ EXCEPT !.pc = "returned", !.result = "False"]]

\* line 102: the caller has the result
send_to_telegram_return(p) ==
    /\ sending[p].pc = "returned"
    /\ sending' = [sending EXCEPT ![p] = IdleSend]

\* ================================================================ the rest
\* the reply (or the exception) reaches the caller; the session is closed
Return(p) ==
    /\ sess[p].pc = "done"
    /\ sess' = [sess EXCEPT ![p] = IdleSession]
    /\ UNCHANGED <<orders, couriers, clock>>

\* time passes: the value of now() grows
TickUpTo(bound) ==
    /\ clock < bound
    /\ clock' = clock + 1
    /\ UNCHANGED <<orders, couriers, sess>>

Tick == TickUpTo(MaxClock)

\* inputs the callers draw from
RatingInputs == {0, 1, 5, 6}
AddonInputs == {0, 200}
OrderCreateInputs(types, addons) ==
    [zone_id : ZoneIdInputs, order_type : types,
     zone_addon : addons, rush_hour_addon : addons]
RaceOrderTypes == {"normal", "special"}

NewOrder(order_type) ==
    [status |-> "created", order_type |-> order_type, courier_id |-> NULL,
     accepted_at |-> NULL, delivered_at |-> NULL, courier_rating |-> NULL,
     price |-> IF order_type = "important" THEN 0 ELSE DefaultBasePrice,
     zone_addon |-> 0, rush_hour_addon |-> 0]

NewCourier(is_active, current_orders, max_orders) ==
    [is_active |-> is_active, current_orders |-> current_orders,
     max_orders |-> max_orders]

\* Redis holds the codes that were generated, none of them used yet
AdminInit ==
    /\ otc = [c \in OtcCodes |-> "unused"]
    /\ verifying = [p \in Sessions |-> IdleVerify]

\* no user has tried to register yet
UserInit ==
    /\ users = [t \in TelegramIds |-> NoUser]
    /\ registration_codes = [c \in RegistrationCodeIds |-> [is_used |-> FALSE]]
    /\ validating = [p \in Sessions |-> IdleValidate]
    /\ failed_attempts = [t \in TelegramIds |-> 0]

NotifyInit == sending = [p \in Sessions |-> IdleSend]

\* a store with n freshly created orders and couriers of any load
InitStore(n, types) ==
    /\ AdminInit
    /\ UserInit
    /\ NotifyInit
    /\ orders \in [1..n -> {NewOrder(t) : t \in types}]
    /\ couriers \in [CourierIds ->
            {NewCourier(a, k, m) : a \in BOOLEAN, k \in 0..MaxCapacity, m \in 1..MaxCapacity}]
    /\ \A c \in CourierIds :
            CourierCheckConstraints(couriers[c].current_orders, couriers[c].max_orders)
    /\ clock = 1
    /\ sess = [p \in Sessions |-> IdleSession]

Init == InitStore(NumOrders, OrderType)

\* the steps request p can take
create_order_step(p, types, addons) ==
    \E order_data \in OrderCreateInputs(types, addons) : create_order(p, order_data)

assign_courier_manually_step(p) ==
    \/ \E o \in OrderIdInputs, c \in CourierIdInputs :
            assign_courier_manually_get_order(p, o, c)
    \/ assign_courier_manually_get_courier(p)

assign_courier_automatically_step(p) ==
    \/ \E o \in OrderIdInputs : assign_courier_automatically_get_order(p, o)
    \/ assign_courier_automatically_select(p)

update_order_status_step(p, statuses) ==
    \/ \E o \in OrderIdInputs, st \in statuses : update_order_status_get_order(p, o, st)
    \/ update_order_status_commit(p)

confirm_order_step(p) ==
    \/ \E o \in OrderIdInputs : confirm_order_get_order(p, o)
    \/ confirm_order_commit(p)

rate_courier_step(p) ==
    \/ \E o \in OrderIdInputs, r \in RatingInputs : rate_courier_get_order(p, o, r)
    \/ rate_courier_commit(p)

\* Spec: the whole engine, serving one request at a time; the orders it is
\* asked to create are plain ones (CreateSpec has them all)
OneAtATime == {1}
PlainOrderTypes == {"normal", "important"}
NoAddons == {0}

Next ==
    \/ \E p \in OneAtATime :
        \/ Engine(create_order_step(p, PlainOrderTypes, NoAddons))
        \/ Engine(assign_courier_manually_step(p))
        \/ Engine(assign_courier_automatically_step(p))
        \/ Engine(assignment_commit(p))
        \/ Engine(update_order_status_step(p, OrderStatus))
        \/ Engine(confirm_order_step(p))
        \/ Engine(auto_confirm_orders(p))
        \/ Engine(rate_courier_step(p))
        \/ Engine(Return(p))
    \/ Engine(Tick)

Spec == Init /\ [][Next]_vars

\* RaceSpec: concurrent requests to the two assignment handlers, whose awaits
\* interleave freely, and to update_order_status putting an order back to
\* created
RaceInit == InitStore(NumRaceOrders, RaceOrderTypes)

RaceStatusInputs == {"created"}

RaceNext ==
    \/ \E p \in Sessions :
        \/ Engine(assign_courier_manually_step(p))
        \/ Engine(assign_courier_automatically_step(p))
        \/ Engine(assignment_commit(p))
        \/ Engine(update_order_status_step(p, RaceStatusInputs))
        \/ Engine(Return(p))
    \/ Engine(Tick)

RaceSpec == RaceInit /\ [][RaceNext]_vars

\* ConfirmSpec: concurrent requests to the handlers that follow a delivery
\* (status updates, confirm_order, the auto-confirm sweep, rate_courier) on
\* the orders of a store whose couriers are all free, over a time long enough
\* for a delivery to become older than 12 hours
ConfirmInit ==
    /\ InitStore(NumOrders, {"normal"})
    /\ \A c \in CourierIds : couriers[c] = NewCourier(TRUE, 0, MaxCapacity)

ConfirmStatusInputs == OrderStatus

ConfirmNext ==
    \/ \E p \in Sessions :
        \/ Engine(update_order_status_step(p, ConfirmStatusInputs))
        \/ Engine(confirm_order_step(p))
        \/ Engine(auto_confirm_orders(p))
        \/ Engine(rate_courier_step(p))
        \/ Engine(Return(p))
    \/ Engine(TickUpTo(MaxSweepClock))

ConfirmSpec == ConfirmInit /\ [][ConfirmNext]_vars

\* the order engine at rest: no order, free couriers, no request
EngineIdle ==
    /\ orders = <<>>
    /\ couriers = [c \in CourierIds |-> NewCourier(TRUE, 0, MaxCapacity)]
    /\ clock = 1
    /\ sess = [p \in Sessions |-> IdleSession]

\* VerifySpec: concurrent calls of verify_one_time_code, with Redis failing
\* and keys expiring at any time
VerifyInit == EngineIdle /\ AdminInit /\ UserInit /\ NotifyInit

VerifyNext ==
    \/ \E p \in Sessions :
        \/ \E code \in OtcCodes, redis_ok \in BOOLEAN :
                Admin(verify_one_time_code_get(p, code, redis_ok))
        \/ \E redis_ok \in BOOLEAN : Admin(verify_one_time_code_setex(p, redis_ok))
        \/ Admin(verify_one_time_code_return(p))
    \/ \E code \in OtcCodes : Admin(otc_expire(code))

VerifySpec == VerifyInit /\ [][VerifyNext]_vars

\* ValidateSpec: concurrent calls of validate_registration_code
ValidateNext ==
    \E p \in Sessions :
        \/ \E t \in TelegramIds, code \in RegistrationCodeInputs :
                Users(validate_registration_code_get_user(p, t, code))
        \/ Users(validate_registration_code_find_code(p))
        \/ Users(validate_registration_code_commit(p))
        \/ Users(validate_registration_code_return(p))

ValidateSpec == VerifyInit /\ [][ValidateNext]_vars

\* SendSpec: concurrent calls of _send_to_telegram; the event loop goes on
\* running every call that can take a step
send_to_telegram_step(p) ==
    \/ \E outcome \in SendOutcomes : Notify(send_to_telegram_attempt(p, outcome))
    \/ Notify(send_to_telegram_wake(p))
    \/ Notify(send_to_telegram_exhausted(p))

SendNext ==
    \E p \in Sessions :
        \/ Notify(send_to_telegram_call(p))
        \/ send_to_telegram_step(p)
        \/ Notify(send_to_telegram_return(p))

SendSpec ==
    /\ VerifyInit
    /\ [][SendNext]_vars
    /\ \A p \in Sessions : WF_vars(send_to_telegram_step(p))

\* SweepSpec: a courier reports progress and delivery through
\* update_order_status while the periodic job runs auto_confirm_orders in a
\* session of its own.  Time goes on, the job is started again whenever it is
\* not running, and a handler that was started runs to its end.
SweepStatusInputs == {"in_progress", "delivered"}
SweepJobs == Sessions \ OneAtATime

SweepNext ==
    \/ \E p \in OneAtATime : Engine(update_order_status_step(p, SweepStatusInputs))
    \/ \E p \in SweepJobs : Engine(auto_confirm_orders(p))
    \/ \E p \in Sessions : Engine(Return(p))
    \/ Engine(TickUpTo(MaxSweepClock))

SweepSpec ==
    /\ ConfirmInit
    /\ [][SweepNext]_vars
    /\ WF_vars(Engine(TickUpTo(MaxSweepClock)))
    /\ \A p \in SweepJobs : WF_vars(Engine(auto_confirm_orders(p)))
    /\ \A p \in Sessions : WF_vars(Engine(Return(p)))
    /\ \A p \in OneAtATime : WF_vars(Engine(update_order_status_commit(p)))

\* CounterSpec: the concurrent assignments of RaceSpec on normal orders and
\* couriers that are free and take one order more than MaxCapacity
CounterInit ==
    /\ AdminInit
    /\ UserInit
    /\ NotifyInit
    /\ orders = [o \in 1..NumRaceOrders |-> NewOrder("normal")]
    /\ couriers = [c \in CourierIds |-> NewCourier(TRUE, 0, MaxCapacity + 1)]
    /\ clock = 1
    /\ sess = [p \in Sessions |-> IdleSession]

CounterSpec == CounterInit /\ [][RaceNext]_vars

\* CreateSpec: create_order on every OrderCreate, one request at a time
CreateNext ==
    \/ \E p \in OneAtATime :
        \/ Engine(create_order_step(p, OrderType, AddonInputs))
        \/ Engine(Return(p))
    \/ Engine(Tick)

CreateSpec == Init /\ [][CreateNext]_vars

\* ================================================================== claims

\* ---- C1 ----------------------------------------------------------------
\* C1: for every courier 0 <= current_orders <= max_orders, in every state
\* reached by any interleaving of the assignment handlers (and of status
\* updates that put orders back to created); it holds of the rows of table
\* couriers and of every Courier object a request has loaded and incremented.
C1_CapacityInvariant ==
    /\ \A c \in CourierIds :
        /\ 0 <= couriers[c].current_orders
        /\ couriers[c].current_orders <= couriers[c].max_orders
    /\ \A p \in Sessions :
        sess[p].pc = "got_courier" =>
            /\ 0 <= sess[p].pend
            /\ sess[p].pend <= couriers[sess[p].courier_id].max_orders

\* two requests that overlapped have both assigned an order to one courier,
\* who is now at the limit
C1_Witness ==
    \E p, q \in Sessions :
        /\ p # q
        /\ sess[p].pc = "done" /\ sess[p].result = "ok"
        /\ sess[q].pc = "done" /\ sess[q].result = "ok"
        /\ sess[p].op = "assign_courier_manually"
        /\ sess[q].op = "assign_courier_manually"
        /\ sess[p].courier_id = sess[q].courier_id
        /\ couriers[sess[p].courier_id].current_orders
                = couriers[sess[p].courier_id].max_orders

\* ---- C2 ----------------------------------------------------------------
\* C2: of two concurrent manual assignments of one order at most one
\* succeeds: the later one finds the order accepted and fails, so a manual
\* assignment is committed only to an order that is still in status created.
C2_SecondAssignmentFails ==
    [][\A p \in Sessions :
        ( /\ sess[p].pc = "got_courier"
          /\ sess[p].op = "assign_courier_manually"
          /\ sess'[p].pc = "done"
          /\ sess'[p].result = "ok" )
        => orders[sess[p].order_id].status = "created"]_vars

\* ---- C3 ----------------------------------------------------------------
\* C3: concurrent assignments to one courier lose no increment, so the
\* number of orders whose courier_id is a courier never exceeds the
\* courier's max_orders.
AssignedTo(c) == {o \in OrderIds : orders[o].courier_id = c}

C3_AssignedWithinCapacity ==
    \A c \in CourierIds : Cardinality(AssignedTo(c)) <= couriers[c].max_orders

\* ---- C4 ----------------------------------------------------------------
\* the first precondition of a manual assignment that the store violates, in
\* the order: order exists, order is created, courier exists and is active,
\* courier has a free slot
FirstViolatedPrecondition(o, c) ==
    IF o \notin OrderIds THEN "order_not_found"
    ELSE IF orders[o].status # "created" THEN "not_created"
    ELSE IF c \notin CourierIds THEN "courier_unavailable"
    ELSE IF ~couriers[c].is_active THEN "courier_unavailable"
    ELSE IF ~(couriers[c].current_orders < couriers[c].max_orders) THEN "no_free_slots"
    ELSE "none"

\* C4: assign_courier_manually fails with the error of the first violated
\* precondition (order exists, status created, courier active, free slot),
\* whatever later preconditions are violated too, the four errors being
\* different outcomes; it goes on only while none is violated.
C4_FirstFailureWins ==
    \A p \in OneAtATime :
        sess[p].op = "assign_courier_manually" =>
            LET v == FirstViolatedPrecondition(sess[p].order_id, sess[p].courier_id) IN
            /\ (sess[p].pc = "done" /\ sess[p].result # "ok") => sess[p].result = v
            /\ sess[p].pc = "got_order" => v \notin {"order_not_found", "not_created"}
            /\ sess[p].pc = "got_courier" => v = "none"

\* a call that violates the second and the third precondition at once
C4_Witness ==
    \E p \in OneAtATime :
        /\ sess[p].op = "assign_courier_manually"
        /\ sess[p].pc = "done"
        /\ sess[p].result = "not_created"
        /\ sess[p].courier_id \in CourierIds
        /\ ~couriers[sess[p].courier_id].is_active
        /\ couriers[sess[p].courier_id].current_orders
                >= couriers[sess[p].courier_id].max_orders

\* ---- C5 ----------------------------------------------------------------
\* C5: an assignment is one atomic step: the step that makes a created order
\* accepted with courier c stamps accepted_at with now and raises c's
\* current_orders by exactly 1, and a step that changes a courier's counter
\* is a step that gives this courier an order.
C5_AssignmentIsAtomic ==
    [][\A c \in CourierIds :
        /\ \A o \in OrderIds :
            ( /\ orders[o].status = "created"
              /\ orders'[o].status = "accepted"
              /\ orders'[o].courier_id = c )
            => /\ orders'[o].accepted_at = clock
               /\ couriers'[c].current_orders = couriers[c].current_orders + 1
        /\ couriers'[c] # couriers[c]
            => \E o \in OrderIds :
                /\ orders'[o] # orders[o]
                /\ orders'[o].status = "accepted"
                /\ orders'[o].courier_id = c]_vars

\* ---- C6 ----------------------------------------------------------------
MutatingOps ==
    {"create_order", "assign_courier_manually", "assign_courier_automatically",
     "confirm_order", "rate_courier"}

\* C6: a call of create_order, assign_courier_manually,
\* assign_courier_automatically, confirm_order or rate_courier that ends in
\* an error leaves every order and every courier as they were.
C6_ErrorLeavesStoreUnchanged ==
    [][\A p \in OneAtATime :
        ( /\ sess[p].pc # "done"
          /\ sess'[p].pc = "done"
          /\ sess'[p].op \in MutatingOps
          /\ sess'[p].result \notin NoError )
        => /\ orders' = orders
           /\ couriers' = couriers]_vars

\* ---- C7 ----------------------------------------------------------------
\* C7: assign_courier_automatically on an existing order that is not of type
\* special fails with the only-for-special error, whatever the order's status
\* and the couriers' load, and changes no order and no courier.
C7_OnlySpecialOrders ==
    [][\A p \in OneAtATime :
        ( /\ sess[p].pc = "idle"
          /\ sess'[p].op = "assign_courier_automatically"
          /\ sess'[p].order_id \in OrderIds
          /\ orders[sess'[p].order_id].order_type # "special" )
        => /\ sess'[p].pc = "done"
           /\ sess'[p].result = "only_special"
           /\ orders' = orders
           /\ couriers' = couriers]_vars

\* the refused order is not in status created and a courier has a free slot
C7_Witness ==
    \E p \in OneAtATime :
        /\ sess[p].op = "assign_courier_automatically"
        /\ sess[p].pc = "done"
        /\ sess[p].result = "only_special"
        /\ orders[sess[p].order_id].status = "delivered"
        /\ \E c \in CourierIds :
            couriers[c].is_active /\ couriers[c].current_orders < couriers[c].max_orders

\* ---- C8 ----------------------------------------------------------------
\* the candidates of the specification
Candidates ==
    {c \in CourierIds :
        couriers[c].is_active /\ couriers[c].current_orders < couriers[c].max_orders}

\* C8: for a created special order, assign_courier_automatically returns
\* None only when no courier is active with a free slot, and otherwise
\* chooses one of these couriers.
C8_NoneIffNoCandidate ==
    \A p \in OneAtATime :
        sess[p].op = "assign_courier_automatically" =>
            /\ (sess[p].pc = "done" /\ sess[p].result = "no_courier") => Candidates = {}
            /\ sess[p].pc = "got_courier" => sess[p].courier_id \in Candidates

\* ---- C9 ----------------------------------------------------------------
\* the least loaded candidate, the smallest id among equals
LeastLoaded ==
    CHOOSE c \in Candidates :
        \A d \in Candidates :
            \/ couriers[c].current_orders < couriers[d].current_orders
            \/ couriers[c].current_orders = couriers[d].current_orders /\ c <= d

\* C9: once assign_courier_automatically has made its selection among the
\* candidates, the chosen courier is the least loaded one, ties going to the
\* smallest id, so one store always gives one courier.
C9_LeastLoadedChosen ==
    \A p \in OneAtATime :
        ( /\ sess[p].op = "assign_courier_automatically"
          /\ \/ sess[p].pc = "got_courier"
             \/ sess[p].pc = "done" /\ sess[p].result = "no_courier"
          /\ Candidates # {} )
        => sess[p].courier_id = LeastLoaded

\* ---- C10 ---------------------------------------------------------------
\* C10: confirm_order goes through exactly when the order exists and is
\* delivered; it then ends successfully with the order completed,
\* confirmed_at = now and autoconfirmed_at null; otherwise it fails and the
\* order is unchanged.
C10_ConfirmContract ==
    [][\A p \in OneAtATime :
        /\ (sess[p].pc = "idle" /\ sess'[p].op = "confirm_order") =>
            LET o == sess'[p].order_id IN
            IF o \in OrderIds /\ orders[o].status = "delivered"
            THEN sess'[p].pc = "pending"
            ELSE /\ sess'[p].pc = "done"
                 /\ sess'[p].result \notin NoError
                 /\ orders' = orders
        /\ (sess[p].pc = "pending" /\ sess[p].op = "confirm_order" /\ sess'[p].pc = "done") =>
            LET o == sess[p].order_id IN
            /\ sess'[p].result = "ok"
            /\ orders'[o].status = "completed"
            /\ ReadAttr(orders'[o], "confirmed_at") = clock
            /\ ReadAttr(orders'[o], "autoconfirmed_at") = NULL]_vars

\* ---- C11 ---------------------------------------------------------------
\* the orders the sweep is to complete: delivered more than 12 hours ago and
\* not confirmed in either way
DueForAutoConfirm ==
    {o \in OrderIds :
        /\ orders[o].status = "delivered"
        /\ orders[o].delivered_at # NULL
        /\ orders[o].delivered_at < clock - AutoConfirmDelay
        /\ confirmed_at(o) = NULL
        /\ autoconfirmed_at(o) = NULL}

\* C11: one run of auto_confirm_orders returns the number of orders that
\* are delivered for more than 12 hours with confirmed_at and
\* autoconfirmed_at null, gives each of them status completed and
\* autoconfirmed_at = now with confirmed_at still null, and leaves every
\* other order unchanged.
C11_SweepCompletesDueOrders ==
    [][\A p \in Sessions :
        ( /\ sess[p].pc = "idle"
          /\ sess'[p].op = "auto_confirm_orders" )
        => /\ sess'[p].pc = "done"
           /\ sess'[p].result = "ok"
           /\ sess'[p].count = Cardinality(DueForAutoConfirm)
           /\ \A o \in OrderIds :
                IF o \in DueForAutoConfirm
                THEN /\ orders'[o].status = "completed"
                     /\ ReadAttr(orders'[o], "autoconfirmed_at") = clock
                     /\ ReadAttr(orders'[o], "confirmed_at") = NULL
                ELSE orders'[o] = orders[o]]_vars

\* ---- C12 ---------------------------------------------------------------
\* C12: auto_confirm_orders is idempotent: a run leaves no order due, and a
\* run that finds no order due returns 0 and leaves every order as it was;
\* so the second of two runs in a row returns 0 and changes nothing.
C12_SweepIsIdempotent ==
    [][\A p \in Sessions :
        ( /\ sess[p].pc = "idle"
          /\ sess'[p].op = "auto_confirm_orders" )
        => /\ \A o \in OrderIds :
                ~( /\ orders'[o].status = "delivered"
                   /\ orders'[o].delivered_at # NULL
                   /\ orders'[o].delivered_at < clock - AutoConfirmDelay
                   /\ ReadAttr(orders'[o], "confirmed_at") = NULL
                   /\ ReadAttr(orders'[o], "autoconfirmed_at") = NULL )
           /\ DueForAutoConfirm = {}
                => /\ sess'[p].result = "ok"
                   /\ sess'[p].count = 0
                   /\ orders' = orders]_vars

C14_OneWritePathWins ==
    [][\A p, q \in Sessions :
        ( /\ p # q
          /\ sess[p].pc = "pending"
          /\ sess[p].op = "confirm_order"
          /\ sess'[p].pc = "done"
          /\ sess[q].pc = "done"
          /\ sess[q].op = "auto_confirm_orders" )
        => LET row == orders'[sess[p].order_id] IN
           /\ row.status = "completed"
           /\ (ReadAttr(row, "confirmed_at") # NULL)
                # (ReadAttr(row, "autoconfirmed_at") # NULL)]_vars

\* ---- C15 ---------------------------------------------------------------
\* C15: courier_rating is written at most once: no step changes a rating
\* that is set, and rate_courier on an order that is rated (with a rating in
\* 1..5, the order completed or disputed) fails with the already-rated error.
C15_RatingWrittenOnce ==
    [][/\ \A o \in OrderIds :
            orders[o].courier_rating # NULL
                => orders'[o].courier_rating = orders[o].courier_rating
       /\ \A p \in Sessions :
            ( /\ sess[p].pc = "idle"
              /\ sess'[p].op = "rate_courier"
              /\ sess'[p].rating \in 1..5
              /\ sess'[p].order_id \in OrderIds
              /\ orders[sess'[p].order_id].status \in {"completed", "disputed"}
              /\ orders[sess'[p].order_id].courier_rating # NULL )
            => /\ sess'[p].pc = "done"
               /\ sess'[p].result = "already_rated"]_vars

\* ---- C16 ---------------------------------------------------------------
\* C16: rate_courier(order, rating) goes through exactly when rating is in
\* 1..5, the order exists, its status is completed or disputed and it has no
\* rating; it then ends successfully with courier_rating = rating.  Otherwise
\* it fails and changes nothing, a rating outside 1..5 being refused as such
\* whether or not the order exists.  Every stored rating is null or in 1..5.
C16_RatingContract ==
    [][/\ \A p \in OneAtATime :
            /\ (sess[p].pc = "idle" /\ sess'[p].op = "rate_courier") =>
                LET o == sess'[p].order_id
                    r == sess'[p].rating IN
                /\ r \notin 1..5 =>
                        (sess'[p].pc = "done" /\ sess'[p].result = "bad_rating")
                /\ IF /\ r \in 1..5
                      /\ o \in OrderIds
                      /\ orders[o].status \in {"completed", "disputed"}
                      /\ orders[o].courier_rating = NULL
                   THEN sess'[p].pc = "pending"
                   ELSE /\ sess'[p].pc = "done"
                        /\ sess'[p].result \notin NoError
                /\ orders' = orders
            /\ (sess[p].pc = "pending" /\ sess[p].op = "rate_courier"
                    /\ sess'[p].pc = "done") =>
                /\ sess'[p].result = "ok"
                /\ orders'[sess[p].order_id].courier_rating = sess[p].rating
       /\ \A o \in OrderIds :
            orders'[o].courier_rating = NULL \/ orders'[o].courier_rating \in 1..5]_vars

\* a disputed order has been rated 5
C16_Witness ==
    \E p \in OneAtATime :
        /\ sess[p].op = "rate_courier"
        /\ sess[p].pc = "done"
        /\ sess[p].result = "ok"
        /\ orders[sess[p].order_id].status = "disputed"
        /\ orders[sess[p].order_id].courier_rating = 5

\* ---- C17 ---------------------------------------------------------------
\* the price the specification asks for
PriceFormula(order_data) ==
    (IF order_data.order_type = "important" THEN 0
     ELSE zones[order_data.zone_id].base_price)
    + (IF order_data.order_type = "long_distance" /\ order_data.zone_addon = 0
       THEN 500 ELSE order_data.zone_addon)
    + (IF order_data.order_type = "rush_hour" /\ order_data.rush_hour_addon = 0
       THEN 1000 ELSE order_data.rush_hour_addon)

\* C17: create_order in an existing zone computes the price base component
\* + zone_addon + rush_hour_addon, the base component being the zone's
\* base_price unless the type is important, a zero rush_hour_addon of a
\* rush_hour order counting 1000 and a zero zone_addon of a long_distance
\* order counting 500; a normal order without addons costs the base_price.
C17_PriceIsBasePlusAddons ==
    \A p \in OneAtATime :
        ( /\ sess[p].op = "create_order"
          /\ sess[p].pc = "done"
          /\ sess[p].order_data.zone_id \in ZoneIds )
        => /\ sess[p].result # "type_error"
           /\ sess[p].total_price = PriceFormula(sess[p].order_data)

C19_CreatePersistsOneOrder ==
    [][\A p \in OneAtATime :
        ( /\ sess[p].pc = "idle"
          /\ sess'[p].op = "create_order" )
        => /\ sess'[p].pc = "done"
           /\ couriers' = couriers
           /\ \A o \in OrderIds : o \in DOMAIN orders' /\ orders'[o] = orders[o]
           /\ IF sess'[p].order_data.zone_id \notin ZoneIds
              THEN /\ sess'[p].result = "zone_not_found"
                   /\ orders' = orders
              ELSE /\ sess'[p].result = "ok"
                   /\ Len(orders') = Len(orders) + 1
                   /\ orders'[Len(orders')].status = "created"
                   /\ orders'[Len(orders')].courier_id = NULL]_vars

\* ---- C20 ---------------------------------------------------------------
\* C20: no step changes price, zone_addon or rush_hour_addon of an existing
\* order, and no step removes an order.
C20_PriceIsImmutable ==
    [][\A o \in OrderIds :
        /\ o \in DOMAIN orders'
        /\ orders'[o].price = orders[o].price
        /\ orders'[o].zone_addon = orders[o].zone_addon
        /\ orders'[o].rush_hour_addon = orders[o].rush_hour_addon]_vars

\* an order that was assigned, delivered, completed and rated has its price
C20_Witness ==
    \E o \in OrderIds :
        /\ orders[o].courier_id # NULL
        /\ orders[o].accepted_at # NULL
        /\ orders[o].delivered_at # NULL
        /\ orders[o].status = "completed"
        /\ orders[o].courier_rating # NULL
        /\ orders[o].price = DefaultBasePrice

\* ---- C21 ---------------------------------------------------------------
\* the edges of the lifecycle
NonTerminal == {"created", "accepted", "picking_up", "in_progress", "delivered"}

LegalEdge(old_status, new_status) ==
    \/ old_status = "created" /\ new_status = "accepted"
    \/ old_status = "accepted" /\ new_status = "picking_up"
    \/ old_status = "picking_up" /\ new_status = "in_progress"
    \/ old_status = "in_progress" /\ new_status = "delivered"
    \/ old_status = "delivered" /\ new_status = "completed"
    \/ old_status \in NonTerminal /\ new_status = "disputed"
    \/ old_status \in {"created", "accepted"} /\ new_status = "cancelled"

\* C21: every step of the engine that changes the status of an order changes
\* it along a legal edge of the lifecycle (no skipped state, no step
\* backwards, no way out of completed or cancelled).
C21_OnlyLegalEdges ==
    [][\A o \in OrderIds :
        orders'[o].status # orders[o].status
            => LegalEdge(orders[o].status, orders'[o].status)]_vars

\* ---- C22 ---------------------------------------------------------------
\* C22: in every reachable state an order that is accepted, picking_up,
\* in_progress, delivered or completed has a courier, and an order that is
\* created has none.
C22_CourierMatchesStatus ==
    \A o \in OrderIds :
        /\ orders[o].status \in
                {"accepted", "picking_up", "in_progress", "delivered", "completed"}
            => orders[o].courier_id # NULL
        /\ orders[o].status = "created" => orders[o].courier_id = NULL

\* ---- C23 ---------------------------------------------------------------
\* C23: a step that makes an order cancelled starts from an order that is
\* created or accepted.
C23_CancelOnlyBeforePickup ==
    [][\A o \in OrderIds :
        (orders'[o].status = "cancelled" /\ orders[o].status # "cancelled")
            => orders[o].status \in {"created", "accepted"}]_vars

\* ---- C24 ---------------------------------------------------------------
\* C24: the commit of update_order_status(order, new) leaves the order with
\* status new; delivered_at becomes the time of the commit when the order
\* was in_progress and new is delivered, and keeps its value for every other
\* pair; the handler assigns confirmed_at exactly for the pair delivered ->
\* completed, and the stored confirmed_at and autoconfirmed_at keep their
\* values.
C24_StatusStoredStampsByPair ==
    [][\A p \in Sessions :
        ( /\ sess[p].op = "update_order_status"
          /\ sess[p].pc = "pending"
          /\ sess'[p].pc = "done" )
        => LET o == sess[p].order_id
               old_status == orders[o].status
               new_status == sess[p].new_status IN
            /\ orders'[o].status = new_status
            /\ orders'[o].delivered_at =
                    IF old_status = "in_progress" /\ new_status = "delivered"
                    THEN clock ELSE orders[o].delivered_at
            /\ (sess[p].stamp = "confirmed_at")
                    <=> (old_status = "delivered" /\ new_status = "completed")
            /\ ReadAttr(orders'[o], "confirmed_at") = confirmed_at(o)
            /\ ReadAttr(orders'[o], "autoconfirmed_at") = autoconfirmed_at(o)]_vars

\* an order was moved to delivered from a status other than in_progress: it
\* is delivered and has no delivered_at
C24_Witness ==
    \E p \in Sessions, o \in OrderIds :
        /\ sess[p].pc = "done"
        /\ sess[p].op = "update_order_status"
        /\ sess[p].order_id = o
        /\ sess[p].result = "ok"
        /\ orders[o].status = "delivered"
        /\ orders[o].delivered_at = NULL

\* ---- C27 ---------------------------------------------------------------
\* C27: no step changes an accepted_at that has been set.
C27_AcceptedAtIsImmutable ==
    [][\A o \in OrderIds :
        orders[o].accepted_at # NULL
            => orders'[o].accepted_at = orders[o].accepted_at]_vars

\* ---- C25 ---------------------------------------------------------------
\* C25: with time going on and auto_confirm_orders run again and again, an
\* order that is delivered, whether it has a delivered_at or not, and whose
\* delivered_at leaves the modelled time room for the delay of the sweep,
\* does not stay delivered for ever.
C25_DeliveredIsEventuallyCompleted ==
    \A o \in 1..NumOrders :
        ( /\ orders[o].status = "delivered"
          /\ \/ orders[o].delivered_at = NULL
             \/ orders[o].delivered_at + AutoConfirmDelay < MaxSweepClock )
        ~> (orders[o].status # "delivered")

\* ---- C26 ---------------------------------------------------------------
\* C26: a step that changes a courier row is the commit of an assignment to
\* that courier that goes through, and it adds one to current_orders and
\* changes nothing else; so current_orders never decreases.
C26_CounterOnlyGrowsByOne ==
    [][\A c \in CourierIds :
        couriers'[c] # couriers[c]
            => /\ \E p \in Sessions :
                    /\ sess[p].op \in
                            {"assign_courier_manually", "assign_courier_automatically"}
                    /\ sess[p].pc # "done"
                    /\ sess'[p].pc = "done"
                    /\ sess'[p].result = "ok"
                    /\ sess'[p].courier_id = c
               /\ couriers'[c] =
                    [couriers[c] EXCEPT !.current_orders = couriers[c].current_orders + 1]]_vars

\* ---- C28 ---------------------------------------------------------------
\* C28: of the calls of verify_one_time_code on one code, in sequence or
\* interleaved, at most one returns the code as valid: no two calls hold a
\* valid answer for the same code.
C28_AcceptedAtMostOnce ==
    \A p, q \in Sessions :
        ( /\ p # q
          /\ verifying[p].pc = "done" /\ verifying[p].result = "valid"
          /\ verifying[q].pc = "done" /\ verifying[q].result = "valid" )
        => verifying[p].code # verifying[q].code

\* ---- C29 ---------------------------------------------------------------
\* C29: once three calls of validate_registration_code for a telegram_id
\* have failed on the code, the user of that telegram_id exists and is
\* blocked; and a call that starts while the user is blocked is rejected as
\* blocked and changes no user and no registration code.
C29_BlockedAfterThreeFailures ==
    [][/\ \A t \in TelegramIds :
            failed_attempts'[t] >= BlockingAttempts
                => users'[t].exists /\ users'[t].is_blocked
       /\ \A p \in Sessions :
            ( /\ validating[p].pc = "idle"
              /\ validating'[p].pc # "idle"
              /\ users[validating'[p].telegram_id].is_blocked )
            => /\ validating'[p].pc = "done"
               /\ validating'[p].result = "blocked"
               /\ users' = users
               /\ registration_codes' = registration_codes]_vars

\* ---- C30 ---------------------------------------------------------------
\* C30: a call of _send_to_telegram makes at most max_retries attempts; an
\* attempt that succeeds ends the call with True, an attempt that ends in
\* TelegramBadRequest ends the call with False, a call whose attempts all
\* failed otherwise ends with False after max_retries attempts; and every
\* call that was started returns.
C30_SendTerminates ==
    /\ [](\A p \in Sessions :
            /\ sending[p].sent <= notification_retry_attempts
            /\ sending[p].pc = "returned" =>
                /\ sending[p].result \in {"True", "False"}
                /\ sending[p].result = "True" <=> sending[p].last = "ok"
                /\ sending[p].last \notin {"ok", "TelegramBadRequest"}
                    => sending[p].sent = notification_retry_attempts)
    /\ [][\A p \in Sessions :
            sending'[p].sent = sending[p].sent + 1 =>
                /\ sending'[p].last = "ok" =>
                    sending'[p].pc = "returned" /\ sending'[p].result = "True"
                /\ sending'[p].last = "TelegramBadRequest" =>
                    sending'[p].pc = "returned" /\ sending'[p].result = "False"]_vars
    /\ \A p \in Sessions :
            (sending[p].pc \in {"loop", "sleep"}) ~> (sending[p].pc = "returned")

\* one call gave up after max_retries failed attempts, another was stopped
\* by the TelegramBadRequest of its first attempt
C30_Witness ==
    \E p, q \in Sessions :
        /\ sending[p].pc = "returned"
        /\ sending[p].result = "False"
        /\ sending[p].last = "Exception"
        /\ sending[p].sent = notification_retry_attempts
        /\ sending[q].pc = "returned"
        /\ sending[q].result = "False"
        /\ sending[q].last = "TelegramBadRequest"
        /\ sending[q].sent = 1

====
